---- MODULE Spec2Model ----
(***************************************************************************)
(* Model of glitchy: a GitHub App that receives pull-request webhooks,     *)
(* checks their HMAC signature, and reviews the diff asynchronously.       *)
(*                                                                         *)
(*   src/internal/github/webhook.go   Glitchy: ValidateSignature,          *)
(*                                    HandleWebhook, processPullRequest    *)
(*   src/github/app_auth.go           AppAuth: CreateJWT,                  *)
(*                                    GetInstallationClient,               *)
(*                                    GetInstallations                     *)
(*                                                                         *)
(* Byte strings (payloads, header values, secrets, digests) are sequences  *)
(* of integers 0..255.                                                     *)
(***************************************************************************)
EXTENDS Integers, Sequences, FiniteSets, TLC

VARIABLES
  webhookSecret,  \* Glitchy.webhookSecret
  sigPayload,     \* ValidateSignature: argument payload
  sigHeader,      \* ValidateSignature: argument signatureHeader
  sigCalled,      \* ValidateSignature has returned
  sigResult       \* ValidateSignature: its result (FALSE before the call)

(***************************************************************************)
(* Byte strings of the model and the HMAC-SHA256 of each payload under     *)
(* each secret (crypto/hmac with crypto/sha256, webhook.go lines 60-62).   *)
(* The digests are the values the library computes for these inputs.       *)
(***************************************************************************)

\* 's3cret'
Secret1 ==
  <<115, 51, 99, 114, 101, 116>>

\* 'k'
Secret2 ==
  <<107>>

\* ''
P_empty ==
  <<>>

\* 'h'
P_h ==
  <<104>>

\* 'i'
P_i ==
  <<105>>

\* 'hello'
P_hello ==
  <<104, 101, 108, 108, 111>>

\* 'jello'
P_jello ==
  <<106, 101, 108, 108, 111>>

\* 'hallo'
P_hallo ==
  <<104, 97, 108, 108, 111>>

\* 'heLlo'
P_heLlo ==
  <<104, 101, 76, 108, 111>>

\* 'helpo'
P_helpo ==
  <<104, 101, 108, 112, 111>>

\* 'hellp'
P_hellp ==
  <<104, 101, 108, 108, 112>>

\* '{"action":"opened"}'
P_opened ==
  <<123, 34, 97, 99, 116, 105, 111, 110, 34, 58, 34, 111, 112, 101, 110, 101, 100, 34, 125>>

\* '{"action":"synchronize"}'
P_synchronize ==
  <<123, 34, 97, 99, 116, 105, 111, 110, 34, 58, 34, 115, 121, 110, 99, 104, 114, 111, 110, 105, 122, 101, 34, 125>>

\* '{"action":"closed"}'
P_closed ==
  <<123, 34, 97, 99, 116, 105, 111, 110, 34, 58, 34, 99, 108, 111, 115, 101, 100, 34, 125>>

\* 'null'
P_null ==
  <<110, 117, 108, 108>>

HmacSha256(key, msg) ==
  CASE key = Secret1 /\ msg = P_empty ->
      <<145, 223, 172, 112, 197, 52, 139, 4, 225, 186, 187, 139, 66, 26, 201, 44, 236, 8, 181, 101, 180, 156, 161, 97, 48, 220, 203, 114, 80, 54, 71, 183>>
    [] key = Secret1 /\ msg = P_h ->
      <<126, 149, 228, 197, 55, 57, 196, 121, 6, 34, 230, 65, 178, 117, 61, 176, 4, 222, 253, 46, 16, 96, 252, 29, 136, 206, 27, 126, 193, 141, 45, 152>>
    [] key = Secret1 /\ msg = P_i ->
      <<112, 180, 46, 93, 243, 166, 115, 253, 65, 50, 36, 126, 96, 68, 220, 176, 242, 76, 97, 180, 76, 188, 227, 97, 86, 128, 213, 7, 10, 206, 163, 250>>
    [] key = Secret1 /\ msg = P_hello ->
      <<229, 160, 21, 55, 72, 31, 160, 178, 198, 151, 247, 135, 199, 175, 248, 133, 65, 44, 240, 118, 13, 8, 224, 133, 2, 37, 155, 57, 210, 214, 174, 104>>
    [] key = Secret1 /\ msg = P_jello ->
      <<27, 254, 140, 189, 95, 22, 199, 8, 66, 81, 61, 245, 26, 76, 130, 254, 129, 208, 187, 176, 44, 75, 237, 144, 75, 116, 138, 237, 107, 24, 24, 22>>
    [] key = Secret1 /\ msg = P_hallo ->
      <<118, 91, 59, 38, 39, 100, 189, 229, 207, 254, 206, 170, 141, 46, 199, 238, 187, 133, 235, 134, 19, 164, 120, 22, 7, 187, 249, 225, 35, 67, 103, 1>>
    [] key = Secret1 /\ msg = P_heLlo ->
      <<132, 24, 51, 176, 44, 67, 130, 235, 49, 199, 122, 20, 59, 71, 128, 245, 145, 20, 248, 231, 133, 156, 33, 81, 2, 181, 44, 24, 37, 128, 122, 76>>
    [] key = Secret1 /\ msg = P_helpo ->
      <<194, 49, 22, 164, 194, 218, 58, 253, 145, 119, 151, 24, 165, 214, 19, 52, 45, 40, 119, 121, 141, 44, 38, 45, 13, 133, 180, 61, 58, 246, 156, 186>>
    [] key = Secret1 /\ msg = P_hellp ->
      <<53, 217, 193, 161, 223, 173, 157, 10, 101, 74, 152, 114, 98, 174, 61, 27, 50, 87, 254, 103, 123, 84, 210, 118, 170, 212, 21, 200, 96, 164, 61, 137>>
    [] key = Secret1 /\ msg = P_opened ->
      <<62, 247, 111, 143, 103, 194, 131, 149, 4, 179, 83, 69, 146, 198, 244, 44, 171, 170, 19, 220, 162, 30, 211, 73, 173, 25, 190, 47, 33, 36, 177, 88>>
    [] key = Secret1 /\ msg = P_synchronize ->
      <<97, 14, 231, 168, 253, 106, 11, 122, 25, 188, 37, 53, 47, 62, 74, 243, 8, 15, 131, 146, 210, 60, 229, 60, 77, 49, 188, 80, 77, 15, 123, 229>>
    [] key = Secret1 /\ msg = P_closed ->
      <<223, 176, 112, 43, 175, 213, 188, 85, 216, 175, 20, 191, 125, 72, 200, 29, 202, 101, 235, 157, 88, 77, 237, 244, 105, 7, 90, 114, 93, 106, 42, 159>>
    [] key = Secret1 /\ msg = P_null ->
      <<107, 220, 131, 57, 102, 78, 138, 18, 21, 189, 73, 204, 178, 222, 146, 49, 89, 96, 60, 65, 161, 206, 166, 215, 69, 131, 171, 73, 31, 191, 222, 60>>
    [] key = Secret2 /\ msg = P_empty ->
      <<139, 185, 144, 196, 10, 125, 97, 203, 151, 89, 122, 148, 33, 37, 2, 91, 229, 10, 200, 190, 183, 68, 54, 227, 115, 91, 152, 137, 58, 127, 102, 32>>
    [] key = Secret2 /\ msg = P_h ->
      <<125, 170, 222, 149, 165, 112, 75, 195, 147, 134, 21, 204, 172, 75, 31, 46, 207, 224, 201, 126, 153, 5, 97, 191, 212, 102, 168, 23, 245, 108, 192, 74>>
    [] key = Secret2 /\ msg = P_i ->
      <<12, 234, 200, 131, 95, 135, 99, 31, 132, 159, 52, 253, 32, 69, 197, 28, 253, 221, 23, 45, 124, 214, 81, 34, 117, 12, 63, 138, 224, 251, 52, 148>>
    [] key = Secret2 /\ msg = P_hello ->
      <<64, 110, 75, 67, 248, 112, 149, 170, 134, 202, 98, 153, 210, 94, 135, 89, 33, 254, 250, 24, 15, 2, 4, 59, 178, 155, 236, 86, 129, 192, 194, 208>>
    [] key = Secret2 /\ msg = P_jello ->
      <<97, 30, 212, 224, 175, 113, 85, 223, 134, 254, 26, 102, 228, 50, 183, 74, 254, 142, 66, 215, 5, 124, 201, 32, 139, 190, 233, 129, 42, 48, 176, 163>>
    [] key = Secret2 /\ msg = P_hallo ->
      <<90, 114, 208, 143, 92, 45, 153, 26, 103, 31, 243, 215, 3, 65, 186, 148, 154, 151, 173, 151, 76, 145, 22, 122, 236, 255, 204, 253, 36, 89, 56, 3>>
    [] key = Secret2 /\ msg = P_heLlo ->
      <<47, 41, 105, 61, 249, 158, 189, 228, 139, 145, 65, 222, 139, 143, 110, 19, 211, 216, 43, 52, 84, 46, 58, 74, 15, 105, 64, 81, 66, 26, 165, 131>>
    [] key = Secret2 /\ msg = P_helpo ->
      <<193, 63, 52, 255, 6, 78, 178, 102, 189, 224, 96, 58, 203, 19, 127, 211, 150, 206, 16, 27, 40, 177, 203, 65, 234, 168, 38, 163, 230, 102, 219, 200>>
    [] key = Secret2 /\ msg = P_hellp ->
      <<156, 9, 244, 104, 223, 17, 241, 49, 24, 123, 230, 54, 44, 187, 87, 31, 35, 52, 50, 242, 65, 98, 64, 36, 212, 76, 133, 64, 54, 62, 93, 218>>
    [] key = Secret2 /\ msg = P_opened ->
      <<36, 90, 252, 71, 61, 99, 202, 166, 226, 230, 49, 33, 71, 254, 192, 167, 1, 19, 23, 2, 159, 96, 74, 74, 203, 174, 198, 43, 23, 136, 154, 200>>
    [] key = Secret2 /\ msg = P_synchronize ->
      <<202, 68, 177, 146, 220, 161, 246, 252, 176, 131, 179, 164, 114, 74, 181, 112, 121, 181, 240, 222, 248, 122, 35, 155, 232, 170, 186, 177, 4, 191, 204, 104>>
    [] key = Secret2 /\ msg = P_closed ->
      <<25, 82, 78, 84, 244, 42, 186, 209, 25, 211, 151, 101, 104, 15, 253, 243, 135, 11, 7, 247, 109, 38, 2, 175, 128, 202, 237, 245, 217, 215, 238, 28>>
    [] key = Secret2 /\ msg = P_null ->
      <<26, 48, 138, 247, 182, 84, 189, 199, 49, 64, 47, 37, 66, 230, 221, 184, 137, 229, 67, 65, 218, 217, 246, 182, 77, 12, 249, 226, 235, 223, 175, 142>>

\* sha256.Size: the bytes of a digest.
Sha256Size == 32

Secrets == {Secret1, Secret2}

\* Payloads the signature function is applied to; they include pairs that
\* differ in exactly one byte.
SigPayloads ==
  {P_empty, P_h, P_i, P_hello, P_jello, P_hallo, P_heLlo, P_helpo, P_hellp}

(***************************************************************************)
(* strings.SplitN(s, "=", 2): at most two parts, cut at the first "=".     *)
(***************************************************************************)
MinOf(S) == CHOOSE x \in S : \A y \in S : x <= y

\* A plausible slip: cutting at the last "=" (strings.LastIndex).
SplitN_AtLast(s) ==
  LET idx == {i \in 1..Len(s) : s[i] = 61} IN
  IF idx = {}
    THEN <<s>>
    ELSE LET k == CHOOSE x \in idx : \A y \in idx : y <= x
         IN  <<SubSeq(s, 1, k - 1), SubSeq(s, k + 1, Len(s))>>

SplitN(s) ==
  LET idx == {i \in 1..Len(s) : s[i] = 61} IN
  IF idx = {}
    THEN <<s>>
    ELSE LET k == MinOf(idx)
         IN  <<SubSeq(s, 1, k - 1), SubSeq(s, k + 1, Len(s))>>

(***************************************************************************)
(* encoding/hex: DecodeString fails on a byte that is no hex digit and on  *)
(* an odd length; it accepts both letter cases.                            *)
(***************************************************************************)
IsHexChar(c) ==
  \/ (48 <= c /\ c <= 57)
  \/ (97 <= c /\ c <= 102)
  \/ (65 <= c /\ c <= 70)

FromHexChar(c) ==
  IF 48 <= c /\ c <= 57 THEN c - 48
  ELSE IF 97 <= c /\ c <= 102 THEN c - 97 + 10
  ELSE c - 65 + 10

\* A plausible slip: a trailing odd digit is dropped instead of rejected.
HexDecode_DropOdd(s) ==
  LET n == Len(s) \div 2 IN
  IF \E i \in 1..Len(s) : ~IsHexChar(s[i])
    THEN [ok |-> FALSE, bytes |-> <<>>]
    ELSE [ok |-> TRUE,
          bytes |-> [i \in 1..n |->
                       FromHexChar(s[2 * i - 1]) * 16 + FromHexChar(s[2 * i])]]

HexDecode(s) ==
  LET n == Len(s) \div 2 IN
  IF \E i \in 1..Len(s) : ~IsHexChar(s[i])
    THEN [ok |-> FALSE, bytes |-> <<>>]
  ELSE IF Len(s) % 2 = 1
    THEN [ok |-> FALSE, bytes |-> <<>>]
    ELSE [ok |-> TRUE,
          bytes |-> [i \in 1..n |->
                       FromHexChar(s[2 * i - 1]) * 16 + FromHexChar(s[2 * i])]]

(***************************************************************************)
(* hmac.Equal: equal lengths and equal bytes.                              *)
(***************************************************************************)
\* A plausible slip: the last byte is left out of the comparison.
HmacEqual_OffByOne(a, b) ==
  /\ Len(a) = Len(b)
  /\ \A i \in 1..(Len(a) - 1) : a[i] = b[i]

HmacEqual(a, b) ==
  /\ Len(a) = Len(b)
  /\ \A i \in 1..Len(a) : a[i] = b[i]

(***************************************************************************)
(* Glitchy.ValidateSignature (webhook.go lines 45-65).  The algorithm name *)
(* before the "=" (parts[1] here, parts[0] in Go) is never looked at.      *)
(***************************************************************************)
ValidateSignature(secret, payload, signatureHeader) ==
  IF signatureHeader = <<>> THEN FALSE
  ELSE LET parts == SplitN(signatureHeader) IN
    IF Len(parts) # 2 THEN FALSE
    ELSE LET signature == HexDecode(parts[2]) IN
      IF ~signature.ok THEN FALSE
      ELSE HmacEqual(signature.bytes, HmacSha256(secret, payload))

(***************************************************************************)
(* The sender's side: GitHub sends X-Hub-Signature-256 as "sha256=" and    *)
(* the lower-case hex of the HMAC.  The header values the signature check  *)
(* is tried on are built from it.                                          *)
(***************************************************************************)
\* "0123456789abcdef"
HexDigitsLower ==
  <<48, 49, 50, 51, 52, 53, 54, 55, 56, 57, 97, 98, 99, 100, 101, 102>>

\* "0123456789ABCDEF"
HexDigitsUpper ==
  <<48, 49, 50, 51, 52, 53, 54, 55, 56, 57, 65, 66, 67, 68, 69, 70>>

ToHexWith(digits, bytes) ==
  [i \in 1..(2 * Len(bytes)) |->
     IF i % 2 = 1 THEN digits[(bytes[(i + 1) \div 2] \div 16) + 1]
                  ELSE digits[(bytes[i \div 2] % 16) + 1]]

ToHex(bytes) == ToHexWith(HexDigitsLower, bytes)

\* "sha256"
AlgSha256 == <<115, 104, 97, 50, 53, 54>>

\* Other algorithm names a header may carry: "sha1", "md5", "SHA256",
\* "sha512", "x" and the empty name.
OtherAlgorithms ==
  {<<115, 104, 97, 49>>, <<109, 100, 53>>, <<83, 72, 65, 50, 53, 54>>,
   <<115, 104, 97, 53, 49, 50>>, <<120>>, <<>>}

HeaderOf(alg, hexDigest) == alg \o <<61>> \o hexDigest

GoodHeader(secret, payload) ==
  HeaderOf(AlgSha256, ToHex(HmacSha256(secret, payload)))

\* Bytes a single byte of a header is replaced by: the hex digits of both
\* cases, "=", "G", "g", "s", a space, and the bytes 0 and 255.
ByteAlphabet ==
  (48..57) \cup (97..102) \cup (65..70) \cup {0, 32, 61, 71, 103, 115, 255}

OneByteChanges(h) ==
  {[h EXCEPT ![i] = c] : i \in 1..Len(h), c \in ByteAlphabet} \ {h}

\* Short headers over "0", "a", "g", "=": no separator, several separators,
\* no hex, odd and even lengths.
MaxJunkLen == 3

JunkAlphabet == {48, 97, 103, 61}

JunkHeaders == UNION {[1..k -> JunkAlphabet] : k \in 0..MaxJunkLen}

Zeros(n) == [i \in 1..n |-> 48]

SigHeaders(secret, payload) ==
  LET mac  == HmacSha256(secret, payload)
      hexd == ToHex(mac)
      good == HeaderOf(AlgSha256, hexd)
  IN  {good}
      \cup OneByteChanges(good)
      \cup {HeaderOf(alg, hexd) : alg \in OtherAlgorithms}
      \cup {HeaderOf(AlgSha256, ToHexWith(HexDigitsUpper, mac))}
      \cup {GoodHeader(secret, p) : p \in SigPayloads}
      \cup {GoodHeader(s, payload) : s \in Secrets}
      \cup JunkHeaders
      \cup {HeaderOf(AlgSha256, SubSeq(hexd, 1, k)) : k \in 0..Len(hexd)}
      \cup {HeaderOf(AlgSha256, hexd \o Zeros(k)) : k \in 1..2}
      \cup {HeaderOf(AlgSha256, Zeros(2 * Len(mac)))}
      \cup {AlgSha256 \o hexd,
            HeaderOf(AlgSha256, <<61>> \o hexd),
            HeaderOf(AlgSha256, hexd \o <<61>>),
            HeaderOf(<<97>>, good)}

(***************************************************************************)
(* The server: deliveries handled by HandleWebhook, each accepted          *)
(* pull-request delivery starting one processPullRequest goroutine, and    *)
(* the --list-installations run of main.                                   *)
(***************************************************************************)
MaxRequests == 2

Requests == 1..MaxRequests

\* Payloads a delivery carries: three pull_request bodies and one body that
\* is no JSON.
WebhookPayloads == {P_opened, P_synchronize, P_closed, P_hello, P_null}

\* X-GitHub-Event values.
Events == {"ping", "pull_request", "push"}

\* X-Hub-Signature-256 values a delivery of payload p carries: the sender's,
\* a digest of zeros, none.
WebhookHeaders(secret, p) ==
  {GoodHeader(secret, p),
   HeaderOf(AlgSha256, Zeros(2 * Sha256Size)),
   <<>>}

\* A delivery: whether io.ReadAll(r.Body) succeeds, the body, the signature
\* header, the event header.
Deliveries(secret) ==
  UNION {[bodyOK : BOOLEAN, payload : {p}, header : WebhookHeaders(secret, p),
          event : Events] : p \in WebhookPayloads}

(***************************************************************************)
(* gh.ParseWebHook("pull_request", payload), the type assertion on its     *)
(* result and PullRequestEvent.GetAction, on the payloads of the model.    *)
(* ok: no error was returned; a JSON object parses, the JSON text null     *)
(* parses to a nil event, other bodies do not parse.  typed: the event is  *)
(* a *PullRequestEvent.                                                    *)
(***************************************************************************)
ParseWebHook(payload) ==
  CASE payload = P_opened      -> [ok |-> TRUE,  typed |-> TRUE,  action |-> "opened"]
    [] payload = P_synchronize -> [ok |-> TRUE,  typed |-> TRUE,  action |-> "synchronize"]
    [] payload = P_closed      -> [ok |-> TRUE,  typed |-> TRUE,  action |-> "closed"]
    [] payload = P_null        -> [ok |-> TRUE,  typed |-> FALSE, action |-> ""]
    [] OTHER                   -> [ok |-> FALSE, typed |-> FALSE, action |-> ""]

(***************************************************************************)
(* Glitchy.HandleWebhook up to its last statement (webhook.go 68-141):     *)
(* what the handler has read, how far it got and what it answered.         *)
(* status 0: nothing written yet.  spawn: "go bot.processPullRequest" ran  *)
(* and only w.WriteHeader(200) is left.                                    *)
(***************************************************************************)
Answer(d, sigChecked, sigOK, dispatched, parsed, status, reply, spawn) ==
  [bodyOK     |-> d.bodyOK,
   payload    |-> IF d.bodyOK THEN d.payload ELSE <<>>,
   header     |-> IF sigChecked THEN d.header ELSE <<>>,
   event      |-> IF dispatched THEN d.event ELSE "",
   sigChecked |-> sigChecked,
   sigOK      |-> sigOK,
   dispatched |-> dispatched,
   parsed     |-> parsed,
   status     |-> status,
   reply      |-> reply,
   writes     |-> IF status = 0 THEN 0 ELSE 1,
   spawn      |-> spawn]

\* A plausible slip: the ping is answered before the signature is checked.
HandleWebhook_PingFirst(secret, d) ==
  IF ~d.bodyOK
    THEN Answer(d, FALSE, FALSE, FALSE, FALSE, 500,
                "Failed to read request body", FALSE)
  ELSE IF d.event = "ping"
    THEN Answer(d, TRUE, ValidateSignature(secret, d.payload, d.header),
                TRUE, FALSE, 200, "Pong!", FALSE)
  ELSE IF ~ValidateSignature(secret, d.payload, d.header)
    THEN Answer(d, TRUE, FALSE, FALSE, FALSE, 401, "Invalid signature", FALSE)
  ELSE IF d.event # "pull_request"
    THEN Answer(d, TRUE, TRUE, TRUE, FALSE, 200, "", FALSE)
  ELSE LET event == ParseWebHook(d.payload) IN
    IF ~event.ok
      THEN Answer(d, TRUE, TRUE, TRUE, TRUE, 400, "Failed to parse webhook", FALSE)
    ELSE IF ~event.typed
      THEN Answer(d, TRUE, TRUE, TRUE, TRUE, 400, "Invalid event payload", FALSE)
    ELSE IF event.action # "opened" /\ event.action # "synchronize"
      THEN Answer(d, TRUE, TRUE, TRUE, TRUE, 200, "", FALSE)
      ELSE Answer(d, TRUE, TRUE, TRUE, TRUE, 0, "", TRUE)

\* A plausible slip: the action of the pull_request event is not looked at.
HandleWebhook_AnyAction(secret, d) ==
  IF ~d.bodyOK
    THEN Answer(d, FALSE, FALSE, FALSE, FALSE, 500,
                "Failed to read request body", FALSE)
  ELSE IF ~ValidateSignature(secret, d.payload, d.header)
    THEN Answer(d, TRUE, FALSE, FALSE, FALSE, 401, "Invalid signature", FALSE)
  ELSE IF d.event = "ping"
    THEN Answer(d, TRUE, TRUE, TRUE, FALSE, 200, "Pong!", FALSE)
  ELSE IF d.event # "pull_request"
    THEN Answer(d, TRUE, TRUE, TRUE, FALSE, 200, "", FALSE)
  ELSE IF ~ParseWebHook(d.payload).ok
    THEN Answer(d, TRUE, TRUE, TRUE, TRUE, 400, "Failed to parse webhook", FALSE)
  ELSE IF ~ParseWebHook(d.payload).typed
    THEN Answer(d, TRUE, TRUE, TRUE, TRUE, 400, "Invalid event payload", FALSE)
    ELSE Answer(d, TRUE, TRUE, TRUE, TRUE, 0, "", TRUE)

\* A plausible slip: an ignored pull_request action returns with nothing
\* written.
HandleWebhook_SilentIgnore(secret, d) ==
  IF ~d.bodyOK
    THEN Answer(d, FALSE, FALSE, FALSE, FALSE, 500,
                "Failed to read request body", FALSE)
  ELSE IF ~ValidateSignature(secret, d.payload, d.header)
    THEN Answer(d, TRUE, FALSE, FALSE, FALSE, 401, "Invalid signature", FALSE)
  ELSE IF d.event = "ping"
    THEN Answer(d, TRUE, TRUE, TRUE, FALSE, 200, "Pong!", FALSE)
  ELSE IF d.event # "pull_request"
    THEN Answer(d, TRUE, TRUE, TRUE, FALSE, 200, "", FALSE)
  ELSE LET event == ParseWebHook(d.payload) IN
    IF ~event.ok
      THEN Answer(d, TRUE, TRUE, TRUE, TRUE, 400, "Failed to parse webhook", FALSE)
    ELSE IF ~event.typed
      THEN Answer(d, TRUE, TRUE, TRUE, TRUE, 400, "Invalid event payload", FALSE)
    ELSE IF event.action # "opened" /\ event.action # "synchronize"
      THEN Answer(d, TRUE, TRUE, TRUE, TRUE, 0, "", FALSE)
      ELSE Answer(d, TRUE, TRUE, TRUE, TRUE, 0, "", TRUE)

HandleWebhookBody(secret, d) ==
  IF ~d.bodyOK
    THEN Answer(d, FALSE, FALSE, FALSE, FALSE, 500,
                "Failed to read request body", FALSE)
  ELSE IF ~ValidateSignature(secret, d.payload, d.header)
    THEN Answer(d, TRUE, FALSE, FALSE, FALSE, 401, "Invalid signature", FALSE)
  ELSE IF d.event = "ping"
    THEN Answer(d, TRUE, TRUE, TRUE, FALSE, 200, "Pong!", FALSE)
  ELSE IF d.event # "pull_request"
    THEN Answer(d, TRUE, TRUE, TRUE, FALSE, 200, "", FALSE)
  ELSE LET event == ParseWebHook(d.payload) IN
    IF ~event.ok
      THEN Answer(d, TRUE, TRUE, TRUE, TRUE, 400, "Failed to parse webhook", FALSE)
    ELSE IF ~event.typed
      THEN Answer(d, TRUE, TRUE, TRUE, TRUE, 400, "Invalid event payload", FALSE)
    ELSE IF event.action # "opened" /\ event.action # "synchronize"
      THEN Answer(d, TRUE, TRUE, TRUE, TRUE, 200, "", FALSE)
      ELSE Answer(d, TRUE, TRUE, TRUE, TRUE, 0, "", TRUE)

(***************************************************************************)
(* AppAuth (app_auth.go).  A private key is named by what SignedString     *)
(* does with it: ParseRSAPrivateKeyFromPEM accepts a key of any size, and  *)
(* signing with a key too small for RS256 returns an error.                *)
(***************************************************************************)
PrivateKeys == {"rsa-2048", "rsa-too-small"}

CanSign(key) == key = "rsa-2048"

AppAuths ==
  [AppID : {12345}, InstallationID : {777}, PrivateKey : PrivateKeys,
   HTTPClient : {"http.Client{}"}]

\* fmt.Sprintf("%d", n): the decimal digits of n, with a "-" when negative.
RECURSIVE DecimalDigits(_)
DecimalDigits(n) ==
  IF n < 10 THEN <<48 + n>>
  ELSE Append(DecimalDigits(n \div 10), 48 + (n % 10))

FormatInt(n) ==
  IF n < 0 THEN <<45>> \o DecimalDigits(0 - n) ELSE DecimalDigits(n)

\* 10 * time.Minute, in seconds.
JwtLifetime == 600

\* The wall clock is read in instants of 1/TicksPerSecond of a second, so that
\* time.Now() falls between two seconds as well as on one.
TicksPerSecond == 2

\* time.Time.Unix(): the whole seconds of an instant.
Unix(t) == t \div TicksPerSecond

\* time.Time.Add(d) for a duration of whole seconds.
AddSeconds(t, secs) == t + secs * TicksPerSecond

\* A plausible slip: a lifetime of one minute.
CreateJWT_OneMinute(a, t) ==
  [err   |-> ~CanSign(a.PrivateKey),
   token |-> [alg |-> "RS256", iat |-> Unix(t), exp |-> Unix(AddSeconds(t, 60)),
              iss |-> FormatInt(a.AppID)]]

\* A plausible slip: the expiry rounded up to the next whole second.
CreateJWT_RoundUp(a, t) ==
  [err   |-> ~CanSign(a.PrivateKey),
   token |-> [alg |-> "RS256", iat |-> Unix(t),
              exp |-> Unix(AddSeconds(t, JwtLifetime) + TicksPerSecond - 1),
              iss |-> FormatInt(a.AppID)]]

\* AppAuth.CreateJWT at the instant t that time.Now() returns (app_auth.go
\* 77-97).  RS256 is deterministic: the signed string is a function of the
\* header, the claims and the key, so a token is named by its header and
\* claims.
CreateJWT(a, t) ==
  IF CanSign(a.PrivateKey)
    THEN [err   |-> FALSE,
          token |-> [alg |-> "RS256", iat |-> Unix(t),
                     exp |-> Unix(AddSeconds(t, JwtLifetime)),
                     iss |-> FormatInt(a.AppID)]]
    ELSE [err   |-> TRUE,
          token |-> [alg |-> "", iat |-> 0, exp |-> 0, iss |-> <<>>]]

NoJwt == [claims |-> [alg |-> "", iat |-> 0, exp |-> 0, iss |-> <<>>], mintedBy |-> 0]

\* An installation token as the remote API issues it: a new one for every
\* exchange, named here by the installation and the exchange it answers.
NoToken == [installation |-> 0, issuedTo |-> 0]

NoClient == [auth |-> "", username |-> "", password |-> NoToken]

\* A plausible slip: the token sent the way the JWT is, as a bearer token.
TokenClient_Bearer(token) ==
  [auth |-> "Bearer", username |-> "", password |-> token]

\* github.NewClient over BasicAuthTransport (app_auth.go 129-134).
TokenClient(token) ==
  [auth |-> "Basic", username |-> "x-access-token", password |-> token]

\* What the remote API answers to the token exchange: no answer (a network
\* error), a failure status, 201 with a body that is not the JSON of a token
\* (an intermediary's page, a truncated body), or 201 with a token.
ExchangeResponses == {"neterr", "500", "201-garbled", "201"}

\* The error value CreateInstallationToken returns for each failure, by what
\* its text holds.  A transport error (*url.Error) and a failure status
\* (*github.ErrorResponse) print the request URL, whose path holds the
\* installation ID; the JSON decoder's error prints only what it read.
NoError == [text |-> "", cause |-> "", installation |-> 0]

ExchangeCause(a, resp) ==
  [kind         |-> resp,
   installation |-> IF resp \in {"neterr", "500"} THEN a.InstallationID ELSE 0]

\* app_auth.go 124-126: fmt.Errorf("error getting installation token: %v",
\* err).  The new error holds the format's text and the text of the cause;
\* a.InstallationID is no argument of the format.
ExchangeError(a, resp) ==
  LET cause == ExchangeCause(a, resp) IN
  [text         |-> "error getting installation token: %v",
   cause        |-> cause.kind,
   installation |-> cause.installation]

\* app_auth.go 92-95: fmt.Errorf("error signing JWT: %v", err), returned as
\* it is by GetInstallationClient (app_auth.go 104-107).
SigningError ==
  [text |-> "error signing JWT: %v", cause |-> "signing", installation |-> 0]

\* What it answers to the installation listing.
ListResponses == {"neterr", "500", "200"}

\* The most installations the app has at the remote API.
MaxInstallations == 31

\* The installations the remote API holds for the app when it has n of them,
\* in the order it lists them; each is named by its ID.
RemoteInstallations(n) == [k \in 1..n |-> k]

\* The page size of GET /app/installations when the request names none.
DefaultPerPage == 30

\* app_auth.go 159: Apps.ListInstallations(ctx, nil), one request with no
\* ListOptions, and its answer returned as it is: the first page of the
\* listing.
ListedInstallations(held) == SubSeq(held, 1, MinOf({Len(held), DefaultPerPage}))

(***************************************************************************)
(* Startup (main, NewGlitchy, NewAppAuth).  The environment is what         *)
(* os.Getenv returns once godotenv.Load has run: a byte string per          *)
(* variable, empty when the variable is unset; the key path is named by a  *)
(* string.  A file is named by what os.Stat, os.ReadFile and               *)
(* jwt.ParseRSAPrivateKeyFromPEM make of it.                                *)
(***************************************************************************)
\* GITHUB_APP_ID: unset, "12345", "0", "-5", "+7", "abc", "12a", "1.5".
EnvAppIDs ==
  {<<>>, <<49, 50, 51, 52, 53>>, <<48>>, <<45, 53>>, <<43, 55>>,
   <<97, 98, 99>>, <<49, 50, 97>>, <<49, 46, 53>>}

\* GITHUB_APP_INSTALLATION_ID: unset, "777", "0", "-1", "x".
EnvInstallationIDs == {<<>>, <<55, 55, 55>>, <<48>>, <<45, 49>>, <<120>>}

\* CLAUDE_API_KEY: unset, "k".
EnvClaudeKeys == {<<>>, <<107>>}

\* WEBHOOK_SECRET: unset, or one of the secrets.
EnvWebhookSecrets == {<<>>} \cup Secrets

\* app_auth.go 46: the path used when GITHUB_APP_PRIVATE_KEY_PATH is unset.
DefaultKeyPath == "./glitchy.pem"

\* GITHUB_APP_PRIVATE_KEY_PATH: unset, or a path.
EnvKeyPaths == {"", "/keys/app.pem"}

KeyPaths == {DefaultKeyPath, "/keys/app.pem"}

\* "missing": os.Stat reports that the file does not exist; "staterr":
\* os.Stat fails with another error (ENOTDIR, EACCES on the directory), and
\* so does os.ReadFile; "unreadable": os.Stat succeeds and os.ReadFile fails;
\* "garbage": the contents are no PEM RSA private key; "pem:" and a key: the
\* contents parse to that key.
FileStates ==
  {"missing", "staterr", "unreadable", "garbage", "pem:rsa-2048",
   "pem:rsa-too-small"}

ParsedKey(file) ==
  IF file = "pem:rsa-2048" THEN "rsa-2048" ELSE "rsa-too-small"

Environments ==
  [GITHUB_APP_ID : EnvAppIDs,
   GITHUB_APP_INSTALLATION_ID : EnvInstallationIDs,
   CLAUDE_API_KEY : EnvClaudeKeys,
   WEBHOOK_SECRET : EnvWebhookSecrets,
   GITHUB_APP_PRIVATE_KEY_PATH : EnvKeyPaths]

NoEnvironment ==
  [GITHUB_APP_ID |-> <<>>, GITHUB_APP_INSTALLATION_ID |-> <<>>,
   CLAUDE_API_KEY |-> <<>>, WEBHOOK_SECRET |-> <<>>,
   GITHUB_APP_PRIVATE_KEY_PATH |-> ""]

RECURSIVE DigitsValue(_)
DigitsValue(s) ==
  IF s = <<>> THEN 0
  ELSE 10 * DigitsValue(SubSeq(s, 1, Len(s) - 1)) + (s[Len(s)] - 48)

\* A plausible slip: the leading digits are taken and the rest dropped, the
\* way C's atoi reads a number.
ParseInt_Prefix(s) ==
  LET bad   == {i \in 1..Len(s) : s[i] \notin 48..57}
      upto  == IF bad = {} THEN Len(s)
               ELSE (CHOOSE i \in bad : \A j \in bad : i <= j) - 1
  IN  IF upto = 0 THEN [ok |-> FALSE, n |-> 0]
      ELSE [ok |-> TRUE, n |-> DigitsValue(SubSeq(s, 1, upto))]

\* strconv.ParseInt(s, 10, 64): an optional sign, then one decimal digit or
\* more and nothing else.  The strings of the model are far too short to
\* leave the range of int64.
ParseInt(s) ==
  LET signed == s # <<>> /\ s[1] \in {43, 45}
      digits == IF signed THEN Tail(s) ELSE s
  IN  IF digits = <<>> \/ \E i \in 1..Len(digits) : digits[i] \notin 48..57
        THEN [ok |-> FALSE, n |-> 0]
        ELSE [ok |-> TRUE,
              n  |-> IF signed /\ s[1] = 45 THEN 0 - DigitsValue(digits)
                     ELSE DigitsValue(digits)]

\* The nil *AppAuth.
NoAppAuth ==
  [AppID |-> 0, InstallationID |-> 0, PrivateKey |-> "", HTTPClient |-> ""]

\* NewAppAuth (app_auth.go 26-74): the error it returns ("" for nil), named
\* by the text of its format, and the AppAuth.
NewAppAuth(env, files) ==
  LET appID     == ParseInt(env.GITHUB_APP_ID)
      installID == ParseInt(env.GITHUB_APP_INSTALLATION_ID)
      keyPath   == IF env.GITHUB_APP_PRIVATE_KEY_PATH = "" THEN DefaultKeyPath
                   ELSE env.GITHUB_APP_PRIVATE_KEY_PATH
      file      == files[keyPath]
      fail(e)   == [err |-> e, auth |-> NoAppAuth]
  IN  IF ~appID.ok THEN fail("invalid GitHub App ID")
      ELSE IF ~installID.ok THEN fail("invalid GitHub Installation ID")
      ELSE IF file = "missing" THEN fail("private key file not found")
      ELSE IF file \in {"staterr", "unreadable"}
        THEN fail("error reading private key")
      ELSE IF file = "garbage" THEN fail("error parsing private key")
      ELSE [err  |-> "",
            auth |-> [AppID |-> appID.n, InstallationID |-> installID.n,
                      PrivateKey |-> ParsedKey(file),
                      HTTPClient |-> "http.Client{}"]]

\* part_002 28-30 and 58-63: the variables main requires, per mode.
RequiredEnvVars(args) ==
  IF args = "list" THEN {"GITHUB_APP_ID"}
  ELSE {"GITHUB_APP_ID", "GITHUB_APP_INSTALLATION_ID", "CLAUDE_API_KEY",
        "WEBHOOK_SECRET"}

\* part_002 31-35 and 64-68: os.Getenv(envVar) == "".
MissingEnvVars(args, env) == {v \in RequiredEnvVars(args) : env[v] = <<>>}

\* A plausible slip: log.Error in place of log.Fatal, and the caller goes on.
FatalOnError_LogOnly(err) == FALSE

\* log.Fatal under "if err != nil": the process exits when there is an error.
FatalOnError(err) == err # ""

\* main before it has run a line: its arguments, environment and files.
NoBoot ==
  [pc |-> "none", args |-> "", env |-> NoEnvironment,
   files |-> [p \in KeyPaths |-> "missing"], fatal |-> "",
   keyInits |-> 0, secretInits |-> 0]

(***************************************************************************)
(* State.                                                                  *)
(***************************************************************************)
VARIABLES
  mode,      \* "serve": main serves webhooks; "list": main --list-installations
  procUp,    \* the process is running
  now,       \* wall clock, in instants of 1/TicksPerSecond s
  appAuth,   \* Glitchy.appAuth: the fields of AppAuth
  handler,   \* per delivery: the HandleWebhook call
  wf,        \* per delivery: its processPullRequest goroutine
  lister,    \* the GetInstallations call of --list-installations
  boot,      \* main's startup: its environment, how far it got, what it built
  jwtLog     \* the CreateJWT calls made one after another, with their results

serverVars == <<mode, procUp, now, appAuth, handler, wf, lister, boot, jwtLog>>

vars == <<webhookSecret, sigPayload, sigHeader, sigCalled, sigResult,
          mode, procUp, now, appAuth, handler, wf, lister, boot, jwtLog>>

IdleHandler ==
  [pc |-> "idle", bodyOK |-> FALSE, payload |-> <<>>, header |-> <<>>,
   event |-> "", sigChecked |-> FALSE, sigOK |-> FALSE, dispatched |-> FALSE,
   parsed |-> FALSE, status |-> 0, reply |-> "", writes |-> 0, spawn |-> FALSE]

NoWorkflow ==
  [pc |-> "none", failedAt |-> "", cause |-> "", err |-> NoError,
   jwtMints |-> 0, exchanges |-> 0, jwt |-> NoJwt, bearerSent |-> NoJwt,
   resp |-> "", token |-> NoToken, client |-> NoClient, diffWith |-> NoClient, postWith |-> NoClient,
   diff |-> 0, review |-> 0, posted |-> 0, steps |-> <<>>]

NoLister ==
  [pc |-> "none", jwtMints |-> 0, exchanges |-> 0, jwt |-> NoJwt,
   bearerSent |-> NoJwt, requests |-> 0, resp |-> "", held |-> <<>>,
   result |-> <<>>]

Init ==
  /\ webhookSecret = Secret1
  /\ sigPayload = <<>>
  /\ sigHeader = <<>>
  /\ sigCalled = FALSE
  /\ sigResult = FALSE
  /\ mode \in {"serve", "list"}
  /\ procUp = TRUE
  /\ now = 0
  /\ appAuth \in AppAuths
  /\ handler = [r \in Requests |-> IdleHandler]
  /\ wf = [r \in Requests |-> NoWorkflow]
  /\ lister = [NoLister EXCEPT !.pc = IF mode = "list" THEN "start" ELSE "none"]
  /\ boot = [NoBoot EXCEPT !.pc = IF mode = "list" THEN "listing" ELSE "listening",
                           !.args = mode, !.keyInits = 1,
                           !.secretInits = IF mode = "list" THEN 0 ELSE 1]
  /\ jwtLog = <<>>

(***************************************************************************)
(* HandleWebhook.  Deliveries are numbered in the order they are handled.  *)
(* The handler runs to its "go bot.processPullRequest(prEvent)" in one     *)
(* step; the w.WriteHeader(200) after it is a step of its own, since the   *)
(* new goroutine runs beside it.                                           *)
(***************************************************************************)
\* What HandleWebhook makes of each delivery, per webhook secret.
HandledDeliveries ==
  [secret \in Secrets |->
     {HandleWebhookBody(secret, d) : d \in Deliveries(secret)}]

HandleWebhook(r) ==
  /\ mode = "serve"
  /\ procUp
  /\ boot.pc = "listening"
  /\ handler[r].pc = "idle"
  /\ \A q \in 1..(r - 1) : handler[q].pc # "idle"
  /\ \E a \in HandledDeliveries[webhookSecret] :
       /\ handler' = [handler EXCEPT
                        ![r] = a @@ [pc |-> IF a.spawn THEN "acking" ELSE "done"]]
       /\ wf' = IF a.spawn
                  THEN [wf EXCEPT ![r] = [NoWorkflow EXCEPT !.pc = "start"]]
                  ELSE wf
  /\ UNCHANGED <<webhookSecret, sigPayload, sigHeader, sigCalled, sigResult,
                 boot, jwtLog,
                 mode, procUp, now, appAuth, lister>>

\* A plausible slip: the handler waits for the review before it answers.
AckReady_Join(w) == w.pc \in {"posted", "failed"}

\* webhook.go 141-143: nothing stands between the go statement and
\* w.WriteHeader; the handler does not wait for the goroutine w.
AckReady(w) == TRUE

\* A plausible slip: the answer reports the workflow's failure.
AckStatus_ReportFailure(w) == IF w.pc = "failed" THEN 500 ELSE 200

\* webhook.go 143: the status written, whatever the goroutine w has done.
AckStatus(w) == 200

Ack(r) ==
  /\ procUp
  /\ handler[r].pc = "acking"
  /\ AckReady(wf[r])
  /\ handler' = [handler EXCEPT ![r].pc = "done",
                                ![r].status = AckStatus(wf[r]),
                                ![r].writes = @ + 1]
  /\ UNCHANGED <<webhookSecret, sigPayload, sigHeader, sigCalled, sigResult,
                 boot, jwtLog,
                 mode, procUp, now, appAuth, wf, lister>>

(***************************************************************************)
(* processPullRequest (webhook.go 147-202) with GetInstallationClient      *)
(* (app_auth.go 100-138) inlined: one step per call that leaves the        *)
(* goroutine (signing, token exchange, diff fetch, LLM review, review      *)
(* post).                                                                  *)
(***************************************************************************)
\* A plausible slip: log.Fatal in place of log.Error ends the process.
Abandon_Fatal(w, step, cause) ==
  [w  |-> [w EXCEPT !.pc = "failed", !.failedAt = step, !.cause = cause],
   up |-> FALSE]

\* log.Error and return: the goroutine ends, the process goes on.
Abandon(w, step, cause) ==
  [w  |-> [w EXCEPT !.pc = "failed", !.failedAt = step, !.cause = cause],
   up |-> TRUE]

\* A plausible slip: a JWT minted by another call is used again.
WfCreateJWT_Reuse(i) ==
  /\ procUp
  /\ wf[i].pc = "start"
  /\ LET have == {q \in Requests : wf[q].jwt # NoJwt} IN
     IF have # {}
       THEN wf' = [wf EXCEPT ![i].pc = "minted",
                             ![i].jwt = wf[CHOOSE q \in have : TRUE].jwt]
       ELSE wf' = [wf EXCEPT ![i].pc = "minted",
                             ![i].jwtMints = @ + 1,
                             ![i].jwt = [claims   |-> CreateJWT(appAuth, now).token,
                                         mintedBy |-> i]]
  /\ UNCHANGED <<webhookSecret, sigPayload, sigHeader, sigCalled, sigResult,
                 boot, jwtLog,
                 mode, procUp, now, appAuth, handler, lister>>

\* app_auth.go 104-107, called at webhook.go 157.
WfCreateJWT(i) ==
  /\ procUp
  /\ wf[i].pc = "start"
  /\ LET j == CreateJWT(appAuth, now)
         w == [wf[i] EXCEPT !.jwtMints = @ + 1,
                            !.steps = Append(@, "acquire")]
     IN  IF j.err
           THEN LET out == Abandon([w EXCEPT !.err = SigningError],
                                   "jwt", "signing") IN
                /\ wf' = [wf EXCEPT ![i] = out.w]
                /\ procUp' = out.up
           ELSE /\ wf' = [wf EXCEPT ![i] =
                            [w EXCEPT !.pc = "minted",
                                      !.jwt = [claims |-> j.token, mintedBy |-> i]]]
                /\ procUp' = procUp
  /\ UNCHANGED <<webhookSecret, sigPayload, sigHeader, sigCalled, sigResult,
                 boot, jwtLog,
                 mode, now, appAuth, handler, lister>>

\* A plausible slip: a failed exchange is tried again.
WfExchange_Retry(i) ==
  /\ procUp
  /\ wf[i].pc = "minted"
  /\ wf[i].exchanges < 3
  /\ \E resp \in ExchangeResponses :
       LET w == [wf[i] EXCEPT !.exchanges = @ + 1, !.bearerSent = wf[i].jwt,
                              !.resp = resp]
       IN  IF resp = "201"
             THEN wf' = [wf EXCEPT ![i] =
                           [w EXCEPT !.pc = "client",
                                     !.client = TokenClient(
                                        [installation |-> appAuth.InstallationID,
                                         issuedTo |-> i])]]
             ELSE wf' = [wf EXCEPT ![i] = w]
  /\ UNCHANGED <<webhookSecret, sigPayload, sigHeader, sigCalled, sigResult,
                 boot, jwtLog,
                 mode, procUp, now, appAuth, handler, lister>>

\* app_auth.go 110-137: one CreateInstallationToken call under the JWT, then
\* the client over the token it returned.
WfExchange(i) ==
  /\ procUp
  /\ wf[i].pc = "minted"
  /\ \E resp \in ExchangeResponses :
       LET w == [wf[i] EXCEPT !.exchanges = @ + 1, !.bearerSent = wf[i].jwt,
                              !.resp = resp]
           token == [installation |-> appAuth.InstallationID, issuedTo |-> i]
       IN  IF resp = "201"
             THEN /\ wf' = [wf EXCEPT ![i] =
                              [w EXCEPT !.pc = "client",
                                        !.token = token,
                                        !.client = TokenClient(token)]]
                  /\ procUp' = procUp
             ELSE LET out == Abandon([w EXCEPT !.err = ExchangeError(appAuth, resp)],
                                     "exchange", resp) IN
                  /\ wf' = [wf EXCEPT ![i] = out.w]
                  /\ procUp' = out.up
  /\ UNCHANGED <<webhookSecret, sigPayload, sigHeader, sigCalled, sigResult,
                 boot, jwtLog,
                 mode, now, appAuth, handler, lister>>

\* webhook.go 164-174: PullRequests.GetRaw with the installation client.
WfGetDiff(i) ==
  /\ procUp
  /\ wf[i].pc = "client"
  /\ \E ok \in BOOLEAN :
       LET w == [wf[i] EXCEPT !.diffWith = wf[i].client,
                              !.steps = Append(@, "diff")] IN
       IF ok
         THEN /\ wf' = [wf EXCEPT ![i] = [w EXCEPT !.pc = "diffed", !.diff = i]]
              /\ procUp' = procUp
         ELSE LET out == Abandon(w, "diff", "error") IN
              /\ wf' = [wf EXCEPT ![i] = out.w]
              /\ procUp' = out.up
  /\ UNCHANGED <<webhookSecret, sigPayload, sigHeader, sigCalled, sigResult,
                 boot, jwtLog,
                 mode, now, appAuth, handler, lister>>

\* A plausible slip: the error of the review request is logged and the
\* workflow goes on, with the empty text the call returned.
WfReview_GoOn(i) ==
  /\ procUp
  /\ wf[i].pc = "diffed"
  /\ \E ok \in BOOLEAN :
       /\ wf' = [wf EXCEPT ![i].pc = "reviewed",
                            ![i].steps = Append(@, "llm"),
                            ![i].review = IF ok THEN wf[i].diff ELSE 0]
       /\ procUp' = procUp
  /\ UNCHANGED <<webhookSecret, sigPayload, sigHeader, sigCalled, sigResult,
                 boot, jwtLog,
                 mode, now, appAuth, handler, lister>>

\* webhook.go 178-182: claudeClient.ReviewPullRequest(diff).  The text the
\* LLM returns is named by the diff it was asked about.
WfReview(i) ==
  /\ procUp
  /\ wf[i].pc = "diffed"
  /\ \E ok \in BOOLEAN :
       LET w == [wf[i] EXCEPT !.steps = Append(@, "llm")] IN
       IF ok
         THEN /\ wf' = [wf EXCEPT ![i] = [w EXCEPT !.pc = "reviewed",
                                                   !.review = wf[i].diff]]
              /\ procUp' = procUp
         ELSE LET out == Abandon(w, "llm", "error") IN
              /\ wf' = [wf EXCEPT ![i] = out.w]
              /\ procUp' = out.up
  /\ UNCHANGED <<webhookSecret, sigPayload, sigHeader, sigCalled, sigResult,
                 boot, jwtLog,
                 mode, now, appAuth, handler, lister>>

\* webhook.go 186-201: PullRequests.CreateReview with the same client.
WfPost(i) ==
  /\ procUp
  /\ wf[i].pc = "reviewed"
  /\ \E ok \in BOOLEAN :
       LET w == [wf[i] EXCEPT !.postWith = wf[i].client,
                              !.steps = Append(@, "post")] IN
       IF ok
         THEN /\ wf' = [wf EXCEPT ![i] =
                          [w EXCEPT !.pc = "posted", !.posted = wf[i].review]]
              /\ procUp' = procUp
         ELSE LET out == Abandon(w, "post", "error") IN
              /\ wf' = [wf EXCEPT ![i] = out.w]
              /\ procUp' = out.up
  /\ UNCHANGED <<webhookSecret, sigPayload, sigHeader, sigCalled, sigResult,
                 boot, jwtLog,
                 mode, now, appAuth, handler, lister>>

(***************************************************************************)
(* main --list-installations: GetInstallations (app_auth.go 141-166), then *)
(* the process ends: log.Fatal on an error, return after printing.         *)
(***************************************************************************)
ListCreateJWT ==
  /\ procUp
  /\ lister.pc = "start"
  /\ LET j == CreateJWT(appAuth, now) IN
     IF j.err
       THEN /\ lister' = [lister EXCEPT !.pc = "failed", !.jwtMints = @ + 1]
            /\ procUp' = FALSE
       ELSE /\ lister' = [lister EXCEPT !.pc = "minted", !.jwtMints = @ + 1,
                                        !.jwt = [claims |-> j.token, mintedBy |-> 0]]
            /\ procUp' = procUp
  /\ UNCHANGED <<webhookSecret, sigPayload, sigHeader, sigCalled, sigResult,
                 boot, jwtLog,
                 mode, now, appAuth, handler, wf>>

ListInstallations ==
  /\ procUp
  /\ lister.pc = "minted"
  /\ \E resp \in ListResponses, n \in 0..MaxInstallations :
       LET held == RemoteInstallations(n) IN
       /\ resp # "200" => n = 0
       /\ lister' = [lister EXCEPT !.pc = IF resp = "200" THEN "listed" ELSE "failed",
                                   !.bearerSent = lister.jwt,
                                   !.requests = @ + 1,
                                   !.resp = resp,
                                   !.held = held,
                                   !.result = IF resp = "200"
                                                THEN ListedInstallations(held)
                                                ELSE <<>>]
       /\ procUp' = FALSE
  /\ UNCHANGED <<webhookSecret, sigPayload, sigHeader, sigCalled, sigResult,
                 boot, jwtLog,
                 mode, now, appAuth, handler, wf>>

Next ==
  \/ \E r \in Requests : HandleWebhook(r)
  \/ \E r \in Requests : Ack(r)
  \/ \E i \in Requests : WfCreateJWT(i)
  \/ \E i \in Requests : WfExchange(i)
  \/ \E i \in Requests : WfGetDiff(i)
  \/ \E i \in Requests : WfReview(i)
  \/ \E i \in Requests : WfPost(i)
  \/ ListCreateJWT
  \/ ListInstallations

Spec == Init /\ [][Next]_vars

(***************************************************************************)
(* The server with two deliveries handled side by side, and the scheduler  *)
(* running every handler goroutine that can take its next step: a handler  *)
(* that can write its answer does so.  Nothing is assumed of the review    *)
(* goroutines, which may stop anywhere.                                    *)
(***************************************************************************)
LiveRequests == {1, 2}

LiveInit == Init /\ mode = "serve"

LiveNext ==
  \/ \E r \in LiveRequests : HandleWebhook(r)
  \/ \E r \in LiveRequests : Ack(r)
  \/ \E i \in LiveRequests : WfCreateJWT(i)
  \/ \E i \in LiveRequests : WfExchange(i)
  \/ \E i \in LiveRequests : WfGetDiff(i)
  \/ \E i \in LiveRequests : WfReview(i)
  \/ \E i \in LiveRequests : WfPost(i)

LiveSpec ==
  LiveInit /\ [][LiveNext]_vars /\ \A r \in LiveRequests : WF_vars(Ack(r))

(***************************************************************************)
(* The signature check as a specification of its own: the inputs are drawn *)
(* in the initial state and the one step applies ValidateSignature.        *)
(***************************************************************************)
SigInit ==
  /\ webhookSecret \in Secrets
  /\ sigPayload \in SigPayloads
  /\ sigHeader \in SigHeaders(webhookSecret, sigPayload)
  /\ sigCalled = FALSE
  /\ sigResult = FALSE
  /\ mode = "serve"
  /\ procUp = TRUE
  /\ now = 0
  /\ appAuth \in {a \in AppAuths : CanSign(a.PrivateKey)}
  /\ handler = [r \in Requests |-> IdleHandler]
  /\ wf = [r \in Requests |-> NoWorkflow]
  /\ lister = NoLister
  /\ boot = NoBoot
  /\ jwtLog = <<>>

SigValidate ==
  /\ ~sigCalled
  /\ sigCalled' = TRUE
  /\ sigResult' = ValidateSignature(webhookSecret, sigPayload, sigHeader)
  /\ UNCHANGED <<webhookSecret, sigPayload, sigHeader>>
  /\ UNCHANGED serverVars

SigNext == SigValidate

SigSpec == SigInit /\ [][SigNext]_vars

(***************************************************************************)
(* Startup as a specification of its own: main's arguments, environment    *)
(* and key files are drawn in the initial state; main runs its checks,     *)
(* builds the bot and listens, or lists the installations; the first       *)
(* delivery is handled once the listener is up.                            *)
(***************************************************************************)
StartInit ==
  /\ boot \in [pc : {"start"}, args : {"serve", "list"}, env : Environments,
               files : [KeyPaths -> FileStates], fatal : {""},
               keyInits : {0}, secretInits : {0}]
  /\ mode = boot.args
  /\ procUp = TRUE
  /\ now = 0
  /\ webhookSecret = <<>>
  /\ appAuth = NoAppAuth
  /\ sigPayload = <<>>
  /\ sigHeader = <<>>
  /\ sigCalled = FALSE
  /\ sigResult = FALSE
  /\ handler = [r \in Requests |-> IdleHandler]
  /\ wf = [r \in Requests |-> NoWorkflow]
  /\ lister = NoLister
  /\ jwtLog = <<>>

\* log.Fatal: the message is logged and the process exits.
Exit(fatal) ==
  /\ boot' = [boot EXCEPT !.pc = "exited", !.fatal = fatal]
  /\ procUp' = FALSE

\* part_002 57-79: the required variables, then the key file when its path
\* is given.
MainCheckEnv ==
  /\ procUp
  /\ boot.pc = "start"
  /\ boot.args = "serve"
  /\ LET keyPath == boot.env.GITHUB_APP_PRIVATE_KEY_PATH IN
     IF MissingEnvVars(boot.args, boot.env) # {}
       THEN Exit("Error: environment variable required")
     ELSE IF keyPath # "" /\ boot.files[keyPath] = "missing"
       THEN Exit("GitHub App private key file not found")
     ELSE IF keyPath # "" /\ boot.files[keyPath] = "staterr"
       THEN Exit("Error accessing GitHub App private key file")
     ELSE /\ boot' = [boot EXCEPT !.pc = "checked"]
          /\ procUp' = procUp
  /\ UNCHANGED <<webhookSecret, sigPayload, sigHeader, sigCalled, sigResult,
                 mode, now, appAuth, handler, wf, lister, jwtLog>>

\* part_002 81 and webhook.go 27-42: NewGlitchy.
MainNewGlitchy ==
  /\ procUp
  /\ boot.pc = "checked"
  /\ LET made == NewAppAuth(boot.env, boot.files) IN
     IF FatalOnError(made.err)
       THEN /\ Exit("Error initializing GitHub App auth")
            /\ UNCHANGED <<appAuth, webhookSecret>>
       ELSE /\ appAuth' = made.auth
            /\ webhookSecret' = boot.env.WEBHOOK_SECRET
            /\ boot' = [boot EXCEPT !.pc = "built", !.keyInits = @ + 1,
                                    !.secretInits = @ + 1]
            /\ procUp' = procUp
  /\ UNCHANGED <<sigPayload, sigHeader, sigCalled, sigResult,
                 mode, now, handler, wf, lister, jwtLog>>

\* part_002 83-112: the handlers are registered and http.ListenAndServe
\* either binds the port and serves, or returns an error.
MainListen ==
  /\ procUp
  /\ boot.pc = "built"
  /\ \E bound \in BOOLEAN :
       IF bound
         THEN /\ boot' = [boot EXCEPT !.pc = "listening"]
              /\ procUp' = procUp
         ELSE Exit("error starting server")
  /\ UNCHANGED <<webhookSecret, sigPayload, sigHeader, sigCalled, sigResult,
                 mode, now, appAuth, handler, wf, lister, jwtLog>>

\* part_002 26-41: --list-installations up to the GetInstallations call.
MainList ==
  /\ procUp
  /\ boot.pc = "start"
  /\ boot.args = "list"
  /\ LET made == NewAppAuth(boot.env, boot.files) IN
     IF MissingEnvVars(boot.args, boot.env) # {}
       THEN /\ Exit("Error: environment variable required")
            /\ UNCHANGED <<appAuth, lister>>
     ELSE IF FatalOnError(made.err)
       THEN /\ Exit("Error initializing GitHub App auth")
            /\ UNCHANGED <<appAuth, lister>>
     ELSE /\ appAuth' = made.auth
          /\ boot' = [boot EXCEPT !.pc = "listing", !.keyInits = @ + 1]
          /\ lister' = [NoLister EXCEPT !.pc = "start"]
          /\ procUp' = procUp
  /\ UNCHANGED <<webhookSecret, sigPayload, sigHeader, sigCalled, sigResult,
                 mode, now, handler, wf, jwtLog>>

\* The first delivery to reach the listener.
FirstDelivery == HandleWebhook(1)

StartNext ==
  \/ MainCheckEnv
  \/ MainNewGlitchy
  \/ MainListen
  \/ MainList
  \/ FirstDelivery

StartSpec == StartInit /\ [][StartNext]_vars

(***************************************************************************)
(* CreateJWT as a specification of its own: an AppAuth is drawn in the     *)
(* initial state, the wall clock advances by an instant at a time, and     *)
(* CreateJWT is called MaxJwtCalls times, one call after the other.        *)
(***************************************************************************)
MaxJwtCalls == 2

MaxClockTicks == 5

\* The second in which the clock starts.
ClockStart == 1000000

JwtAppIDs == {0 - 5, 0, 1, 10, 907, 12345}

JwtInit ==
  /\ appAuth \in [AppID : JwtAppIDs, InstallationID : {777},
                  PrivateKey : PrivateKeys, HTTPClient : {"http.Client{}"}]
  /\ now = ClockStart * TicksPerSecond
  /\ jwtLog = <<>>
  /\ webhookSecret = Secret1
  /\ sigPayload = <<>>
  /\ sigHeader = <<>>
  /\ sigCalled = FALSE
  /\ sigResult = FALSE
  /\ mode = "serve"
  /\ procUp = TRUE
  /\ handler = [r \in Requests |-> IdleHandler]
  /\ wf = [r \in Requests |-> NoWorkflow]
  /\ lister = NoLister
  /\ boot = NoBoot

\* The wall clock moves on by one instant.
JwtTick ==
  /\ now < ClockStart * TicksPerSecond + MaxClockTicks
  /\ now' = now + 1
  /\ UNCHANGED <<webhookSecret, sigPayload, sigHeader, sigCalled, sigResult,
                 mode, procUp, appAuth, handler, wf, lister, boot, jwtLog>>

\* a.CreateJWT() at the instant time.Now() returns.
JwtCall ==
  /\ Len(jwtLog) < MaxJwtCalls
  /\ LET made == CreateJWT(appAuth, now) IN
     jwtLog' = Append(jwtLog, [at |-> now, err |-> made.err, token |-> made.token])
  /\ UNCHANGED <<webhookSecret, sigPayload, sigHeader, sigCalled, sigResult,
                 mode, procUp, now, appAuth, handler, wf, lister, boot>>

JwtNext == JwtTick \/ JwtCall

JwtSpec == JwtInit /\ [][JwtNext]_vars

(***************************************************************************)
(* Properties of ValidateSignature, stated without the operators above:    *)
(* a header is read against the hex alphabet directly.                     *)
(***************************************************************************)
SpecHexChars ==
  {HexDigitsLower[i] : i \in 1..16} \cup {HexDigitsUpper[i] : i \in 1..16}

HexValueOf(c) ==
  CHOOSE v \in 0..15 : HexDigitsLower[v + 1] = c \/ HexDigitsUpper[v + 1] = c

\* The hex text s spells exactly the bytes b.
DecodesTo(s, b) ==
  /\ Len(s) = 2 * Len(b)
  /\ \A i \in 1..Len(s) : s[i] \in SpecHexChars
  /\ \A j \in 1..Len(b) :
       HexValueOf(s[2 * j - 1]) * 16 + HexValueOf(s[2 * j]) = b[j]

SeparatorPositions(h) == {i \in 1..Len(h) : h[i] = 61}

\* The text after the first "=" of h (h has one).
AfterSeparator(h) ==
  LET k == CHOOSE i \in SeparatorPositions(h) :
             \A j \in SeparatorPositions(h) : i <= j
  IN  SubSeq(h, k + 1, Len(h))

\* The text before the first "=" of h: the algorithm name.
AlgorithmName(h) ==
  IF SeparatorPositions(h) = {} THEN h
  ELSE LET k == CHOOSE i \in SeparatorPositions(h) :
                  \A j \in SeparatorPositions(h) : i <= j
       IN  SubSeq(h, 1, k - 1)

DiffPositions(a, b) == {i \in 1..Len(a) : a[i] # b[i]}

OneByteOff(a, b) ==
  /\ Len(a) = Len(b)
  /\ Cardinality(DiffPositions(a, b)) = 1

\* C1: ValidateSignature returns true exactly when the header has a "=" and
\* the text after the first one hex-decodes to the HMAC-SHA256 of the payload
\* under the webhook secret; every other header gives false, and the call
\* always returns a boolean.
C1_TrueIffSuffixIsHmac ==
  sigCalled =>
    /\ sigResult \in BOOLEAN
    /\ sigResult <=>
         /\ SeparatorPositions(sigHeader) # {}
         /\ DecodesTo(AfterSeparator(sigHeader),
                      HmacSha256(webhookSecret, sigPayload))

C1_Witness ==
  /\ sigCalled
  /\ sigResult
  /\ sigHeader = GoodHeader(webhookSecret, sigPayload)

\* C2 as claimed: the header "sha256=" + hex(HMAC) is accepted, and a change
\* of any single byte of the payload or of the header value is rejected.
C2_AnySingleByteChangeRejected ==
  sigCalled =>
    LET good == GoodHeader(webhookSecret, sigPayload) IN
    /\ sigHeader = good => sigResult
    /\ OneByteOff(sigHeader, good) => ~sigResult
    /\ \A p0 \in SigPayloads :
         OneByteOff(sigPayload, p0) /\ sigHeader = GoodHeader(webhookSecret, p0)
           => ~sigResult

\* Two header bytes that are the same hex digit, such as "a" and "A".
SameHexDigit(c, d) ==
  /\ c \in SpecHexChars
  /\ d \in SpecHexChars
  /\ HexValueOf(c) = HexValueOf(d)

\* A change of one byte of the separator or the digest that is no mere change
\* of letter case.
DigestByteChanged(h, good) ==
  /\ OneByteOff(h, good)
  /\ \A i \in DiffPositions(h, good) :
       /\ i > Len(AlgSha256)
       /\ ~SameHexDigit(h[i], good[i])

\* C2 as amended: the header "sha256=" + hex(HMAC) is accepted; a change of any
\* single byte of the payload is rejected; a change of the "=" or of any single
\* byte of the hex digest is rejected unless it only changes the case of a hex
\* letter.
C2_DigestOrPayloadChangeRejected ==
  sigCalled =>
    LET good == GoodHeader(webhookSecret, sigPayload) IN
    /\ sigHeader = good => sigResult
    /\ DigestByteChanged(sigHeader, good) => ~sigResult
    /\ \A p0 \in SigPayloads :
         OneByteOff(sigPayload, p0) /\ sigHeader = GoodHeader(webhookSecret, p0)
           => ~sigResult

C2_Witness ==
  /\ sigCalled
  /\ ~sigResult
  /\ DigestByteChanged(sigHeader, GoodHeader(webhookSecret, sigPayload))
  /\ \E i \in DiffPositions(sigHeader, GoodHeader(webhookSecret, sigPayload)) :
       sigHeader[i] \in SpecHexChars

\* C3 as claimed: a header whose algorithm name is not "sha256" is rejected,
\* whatever follows the "=".
C3_OnlySha256Accepted ==
  sigCalled /\ AlgorithmName(sigHeader) # AlgSha256 => ~sigResult

\* A header no sender of "<algorithm>=<hex digest>" produces: empty, not
\* exactly one "=", a suffix with a byte that is no hex digit, or a suffix that
\* is not the hex of 32 bytes.
Malformed(h) ==
  \/ h = <<>>
  \/ Cardinality(SeparatorPositions(h)) # 1
  \/ LET suffix == AfterSeparator(h) IN
       \/ \E i \in 1..Len(suffix) : suffix[i] \notin SpecHexChars
       \/ Len(suffix) # 2 * Sha256Size

\* C4: ValidateSignature returns false for every malformed header, for every
\* payload.
C4_MalformedRejected ==
  sigCalled /\ Malformed(sigHeader) => ~sigResult

\* An empty payload with a header whose suffix is valid hex of the wrong length.
C4_Witness ==
  /\ sigCalled
  /\ ~sigResult
  /\ sigPayload = P_empty
  /\ Cardinality(SeparatorPositions(sigHeader)) = 1
  /\ AlgorithmName(sigHeader) = AlgSha256
  /\ LET suffix == AfterSeparator(sigHeader) IN
       /\ \A i \in 1..Len(suffix) : suffix[i] \in SpecHexChars
       /\ Len(suffix) = 2 * Sha256Size + 1

(***************************************************************************)
(* Properties of the server.                                               *)
(***************************************************************************)
WorkflowEnded(w) == w.pc \in {"posted", "failed"}

WorkflowRunning(w) == w.pc \in {"start", "minted", "client", "diffed", "reviewed"}

\* GetInstallationClient has returned to processPullRequest.
ClientCallReturned(w) == w.pc \notin {"none", "start", "minted"}

\* A step of the goroutine of delivery i.
WfStep(i) ==
  \/ WfCreateJWT(i)
  \/ WfExchange(i)
  \/ WfGetDiff(i)
  \/ WfReview(i)
  \/ WfPost(i)

\* ValidateSignature on the body and header of every delivery, per secret.
SignatureVerdicts ==
  [secret \in Secrets |->
     {<<d.payload, d.header, ValidateSignature(secret, d.payload, d.header)>> :
        d \in Deliveries(secret)}]

\* C5: a delivery whose signature check returned false is answered 401 and the
\* handler is over: no event dispatch, no Pong, no webhook parsing, no review
\* workflow; whatever is dispatched, parsed, answered Pong or reviewed had
\* ValidateSignature return true on the body that was read.
C5_SignatureGatesDispatch ==
  \A r \in Requests :
    LET h == handler[r] IN
    /\ h.sigChecked =>
         <<h.payload, h.header, h.sigOK>> \in SignatureVerdicts[webhookSecret]
    /\ h.sigChecked /\ ~h.sigOK =>
         /\ h.pc = "done"
         /\ h.status = 401
         /\ ~h.dispatched
         /\ ~h.parsed
         /\ h.reply # "Pong!"
         /\ wf[r].pc = "none"
    /\ h.dispatched \/ h.parsed \/ h.reply = "Pong!" \/ wf[r].pc # "none" =>
         h.bodyOK /\ h.sigChecked /\ h.sigOK

C5_Witness ==
  \E r \in Requests :
    /\ handler[r].pc = "done"
    /\ handler[r].sigChecked
    /\ ~handler[r].sigOK
    /\ handler[r].header # <<>>
    /\ handler[r].status = 401

\* C6 as claimed: when the review workflow of a delivery has finished, the
\* signature was verified and the HTTP 200 has been written.
C6_AckBeforeWorkflowEnds ==
  \A r \in Requests :
    WorkflowEnded(wf[r]) =>
      /\ handler[r].sigOK
      /\ handler[r].pc = "done"
      /\ handler[r].status = 200

\* C6 as amended: the signature is verified before the review workflow of a
\* delivery starts; the handler writes the HTTP 200 without waiting for the
\* workflow (the write is possible at every point of the workflow), and the
\* workflow may finish before or after it.
C6_AckNeverWaitsForWorkflow ==
  \A r \in Requests :
    /\ wf[r].pc # "none" =>
         /\ handler[r].sigChecked
         /\ handler[r].sigOK
         /\ handler[r].pc \in {"acking", "done"}
    /\ handler[r].pc = "acking" => ENABLED Ack(r)
    /\ handler[r].pc = "done" /\ handler[r].spawn => handler[r].status = 200

C6_Witness ==
  \E r \in Requests :
    /\ wf[r].pc = "diffed"
    /\ handler[r].pc = "done"
    /\ handler[r].status = 200

\* A correctly signed pull_request delivery with action opened or synchronize.
ReviewDelivery(h) ==
  /\ h.bodyOK
  /\ h.sigOK
  /\ h.event = "pull_request"
  /\ ParseWebHook(h.payload).action \in {"opened", "synchronize"}

\* C7: the answer to a correctly signed pull_request delivery with action
\* opened or synchronize is HTTP 200, written once, whatever its review
\* workflow has done or will do: success, or failure at signing, token
\* exchange, diff fetch, LLM review or review post.
C7_ResponseIgnoresWorkflow ==
  \A r \in Requests :
    handler[r].pc = "done" /\ ReviewDelivery(handler[r]) =>
      /\ handler[r].status = 200
      /\ handler[r].writes = 1

\* Two answered deliveries, one whose workflow failed and one whose workflow
\* posted its review.
C7_Witness ==
  \E r, q \in Requests :
    /\ handler[r].pc = "done" /\ handler[r].status = 200
    /\ wf[r].pc = "failed"
    /\ handler[q].pc = "done" /\ handler[q].status = 200
    /\ wf[q].pc = "posted"

\* C8: while the server serves, a failed workflow leaves the process running
\* and blocks nobody: every workflow that has not ended can take its next
\* step, every handler can write its answer, and the next delivery can be
\* handled.
C8_FailureIsContained ==
  mode = "serve" =>
    /\ procUp
    /\ \A r \in Requests :
         /\ WorkflowRunning(wf[r]) => ENABLED WfStep(r)
         /\ handler[r].pc = "acking" => ENABLED Ack(r)
         /\ (handler[r].pc = "idle" /\ \A q \in 1..(r - 1) : handler[q].pc # "idle")
              => ENABLED HandleWebhook(r)

\* One workflow failed at the token exchange, another posted its review.
C8_Witness ==
  \E i, j \in Requests :
    /\ wf[i].pc = "failed"
    /\ wf[i].failedAt = "exchange"
    /\ wf[j].pc = "posted"
    /\ handler[j].status = 200

\* What C9 says of credentials, the counts aside: AppAuth holds the two
\* identifiers, the key and an HTTP client, never a JWT or a token; the JWT an
\* invocation sends and the token its client carries are its own.
CredentialsAreOwn ==
  /\ appAuth \in AppAuths
  /\ \A i \in Requests :
       LET w == wf[i] IN
       /\ w.jwt # NoJwt => w.jwt.mintedBy = i
       /\ w.bearerSent # NoJwt => w.bearerSent = w.jwt
       /\ w.client # NoClient => w.client.password.issuedTo = i
       /\ w.diffWith \in {NoClient, w.client}
       /\ w.postWith \in {NoClient, w.client}
  /\ lister.bearerSent # NoJwt => lister.bearerSent = lister.jwt

\* C9 as claimed: every GetInstallationClient invocation performs exactly one
\* CreateJWT and exactly one token exchange, every GetInstallations exactly one
\* CreateJWT, and no credential is stored in AppAuth or used by another
\* invocation.
C9_ExactlyOneMintAndExchange ==
  /\ \A i \in Requests :
       ClientCallReturned(wf[i]) => wf[i].jwtMints = 1 /\ wf[i].exchanges = 1
  /\ lister.pc \in {"listed", "failed"} => lister.jwtMints = 1
  /\ CredentialsAreOwn

\* C9 as amended: every GetInstallationClient invocation performs exactly one
\* CreateJWT and, when the signing succeeded, exactly one token exchange (none
\* when it failed); every GetInstallations performs exactly one CreateJWT and no
\* token exchange; no credential is stored in AppAuth or used by another
\* invocation, concurrent ones included.
C9_FreshCredentialsPerCall ==
  /\ \A i \in Requests :
       /\ wf[i].jwtMints <= 1
       /\ wf[i].exchanges <= 1
       /\ ClientCallReturned(wf[i]) =>
            /\ wf[i].jwtMints = 1
            /\ wf[i].exchanges = IF wf[i].failedAt = "jwt" THEN 0 ELSE 1
  /\ lister.pc \in {"listed", "failed"} =>
       lister.jwtMints = 1 /\ lister.exchanges = 0
  /\ CredentialsAreOwn

\* Two invocations side by side, each holding the client of its own exchange.
C9_Witness ==
  \E i, j \in Requests :
    /\ i # j
    /\ wf[i].pc = "client"
    /\ wf[j].pc = "client"
    /\ wf[i].client # wf[j].client

\* C10: GetInstallationClient makes at most one exchange attempt; a signing
\* error ends it with no exchange, a network error or a failure status ends it
\* after the one attempt; either way it returns an error and no client, and the
\* process keeps running.
C10_NoRetry ==
  \A i \in Requests :
    LET w == wf[i] IN
    /\ w.exchanges <= 1
    /\ (~CanSign(appAuth.PrivateKey) /\ w.jwtMints > 0) =>
         w.pc = "failed" /\ w.failedAt = "jwt"
    /\ w.failedAt = "jwt" => w.exchanges = 0
    /\ w.resp \in ExchangeResponses \ {"201"} =>
         w.pc = "failed" /\ w.failedAt = "exchange" /\ w.exchanges = 1
    /\ w.failedAt \in {"jwt", "exchange"} =>
         /\ w.client = NoClient
         /\ w.cause # ""
         /\ procUp

C10_Witness ==
  \E i \in Requests :
    /\ wf[i].resp = "500"
    /\ wf[i].pc = "failed"
    /\ wf[i].exchanges = 1
    /\ wf[i].client = NoClient

(***************************************************************************)
(* Properties of GetInstallationClient, CreateJWT and GetInstallations.    *)
(***************************************************************************)
\* C11: when the exchange answers 201 with a token T, the client
\* GetInstallationClient returns sends, with every request, Basic credentials
\* whose username is "x-access-token" and whose password is T, the token of
\* this invocation's own exchange: not the JWT, not another invocation's token.
C11_ClientCarriesOwnToken ==
  \A i \in Requests :
    LET w == wf[i] IN
    /\ w.resp = "201" =>
         /\ w.token.issuedTo = i
         /\ w.token.installation = appAuth.InstallationID
         /\ w.client.auth = "Basic"
         /\ w.client.username = "x-access-token"
         /\ w.client.password = w.token
         /\ w.client.password # w.jwt
         /\ \A q \in Requests \ {i} : w.client.password # wf[q].token
    /\ \A sent \in {w.diffWith, w.postWith} \ {NoClient} :
         /\ w.resp = "201"
         /\ sent.auth = "Basic"
         /\ sent.username = "x-access-token"
         /\ sent.password = w.token

\* Two invocations have each posted a review with the token of its own exchange.
C11_Witness ==
  /\ MaxRequests >= 2
  /\ wf[1].postWith # NoClient
  /\ wf[2].postWith # NoClient
  /\ wf[1].postWith.password # wf[2].postWith.password

\* C12: every error GetInstallationClient returns for a failed token exchange
\* carries both the installation ID and the underlying cause.
C12_ExchangeErrorNamesInstallationAndCause ==
  \A i \in Requests :
    wf[i].failedAt = "exchange" =>
      /\ wf[i].err.cause = wf[i].resp
      /\ wf[i].err.installation = appAuth.InstallationID

\* The calls of jwtLog that returned a token.
Minted(k) == k \in 1..Len(jwtLog) /\ ~jwtLog[k].err

\* The wall-clock second an instant falls in.
SecondOf(t) == t \div TicksPerSecond

\* C13: two CreateJWT calls made in succession always produce two distinct
\* tokens with different iat, each expiring exactly 600 seconds after its own
\* iat.
C13_SuccessiveTokensAlwaysDistinct ==
  \A k \in 1..(Len(jwtLog) - 1) :
    Minted(k) /\ Minted(k + 1) =>
      LET a == jwtLog[k].token
          b == jwtLog[k + 1].token
      IN  /\ a # b
          /\ a.iat # b.iat
          /\ a.exp = a.iat + 600
          /\ b.exp = b.iat + 600

\* C13 as amended: of two CreateJWT calls made in succession each token
\* expires exactly 600 seconds after its own iat, and the two tokens are
\* distinct, with different iat, exactly when the calls fall in different
\* wall-clock seconds; two calls within one second return the same token.
C13_DistinctAcrossSeconds ==
  \A k \in 1..(Len(jwtLog) - 1) :
    Minted(k) /\ Minted(k + 1) =>
      LET a == jwtLog[k].token
          b == jwtLog[k + 1].token
          sameSecond == SecondOf(jwtLog[k].at) = SecondOf(jwtLog[k + 1].at)
      IN  /\ a.exp = a.iat + 600
          /\ b.exp = b.iat + 600
          /\ (a # b) <=> ~sameSecond
          /\ (a.iat # b.iat) <=> ~sameSecond

\* Two calls in succession within one wall-clock second, at different instants.
C13_Witness ==
  /\ Len(jwtLog) >= 2
  /\ Minted(1) /\ Minted(2)
  /\ jwtLog[1].at # jwtLog[2].at
  /\ SecondOf(jwtLog[1].at) = SecondOf(jwtLog[2].at)
  /\ jwtLog[1].token = jwtLog[2].token

\* s is the decimal string of n: digits only after an optional "-", no
\* leading zero, and the value n.
IsDecimalStringOf(s, n) ==
  LET neg == s # <<>> /\ s[1] = 45
      d   == IF neg THEN Tail(s) ELSE s
  IN  /\ d # <<>>
      /\ \A i \in 1..Len(d) : d[i] \in 48..57
      /\ Len(d) > 1 => d[1] # 48
      /\ neg => n < 0
      /\ n = (IF neg THEN 0 - DigitsValue(d) ELSE DigitsValue(d))

\* C14: every JWT CreateJWT produces has exp = iat + 600 exactly, at every
\* wall-clock instant, those between two seconds included; its iss is the
\* decimal string of AppID and its header algorithm is RS256.
C14_ClaimsOfEveryJwt ==
  \A k \in 1..Len(jwtLog) :
    Minted(k) =>
      LET t == jwtLog[k].token IN
      /\ t.iat = SecondOf(jwtLog[k].at)
      /\ t.exp = t.iat + 600
      /\ IsDecimalStringOf(t.iss, appAuth.AppID)
      /\ t.alg = "RS256"

\* A token minted between two seconds for an AppID of several digits.
C14_Witness ==
  \E k \in 1..Len(jwtLog) :
    /\ Minted(k)
    /\ jwtLog[k].at % TicksPerSecond # 0
    /\ appAuth.AppID = 12345
    /\ jwtLog[k].token.iss = <<49, 50, 51, 52, 53>>

(***************************************************************************)
(* Properties of startup, stated over the environment and the files main   *)
(* was started with.                                                       *)
(***************************************************************************)
\* s is written as a decimal integer: an optional sign, then digits.
IsInteger(s) ==
  LET d == IF s # <<>> /\ s[1] \in {43, 45} THEN Tail(s) ELSE s IN
  d # <<>> /\ \A i \in 1..Len(d) : d[i] \in 48..57

\* s is written as a decimal integer greater than zero.
IsPositiveInteger(s) ==
  /\ IsInteger(s)
  /\ s[1] # 45
  /\ \E i \in 1..Len(s) : s[i] \in 49..57

\* The key file NewAppAuth reads: the one GITHUB_APP_PRIVATE_KEY_PATH names,
\* ./glitchy.pem when it names none.
KeyFile ==
  IF boot.env.GITHUB_APP_PRIVATE_KEY_PATH = "" THEN boot.files["./glitchy.pem"]
  ELSE boot.files[boot.env.GITHUB_APP_PRIVATE_KEY_PATH]

\* NewAppAuth has returned: with an AppAuth, or with the error main ends on.
AppAuthReturned == boot.pc \in {"built", "listening", "listing"}

AppAuthFailed ==
  boot.pc = "exited" /\ boot.fatal = "Error initializing GitHub App auth"

\* C15: whenever NewAppAuth succeeds, AppID > 0 and InstallationID > 0; an
\* identifier that is zero, negative or not an integer makes the
\* initialization fail.
C15_IdentifiersArePositive ==
  /\ AppAuthReturned =>
       /\ appAuth.AppID > 0
       /\ appAuth.InstallationID > 0
  /\ boot.pc \notin {"start", "checked"}
       /\ ~(/\ IsPositiveInteger(boot.env.GITHUB_APP_ID)
            /\ IsPositiveInteger(boot.env.GITHUB_APP_INSTALLATION_ID))
     => boot.pc = "exited"

\* C16: NewAppAuth returns an error and no AppAuth when the app ID is not
\* numeric, when the key path names no file, and when the key's contents are
\* invalid; it returns an AppAuth only when both IDs parse and the key file
\* exists, is readable and parses.
C16_AppAuthOnlyFromValidConfiguration ==
  /\ appAuth # NoAppAuth =>
       /\ IsInteger(boot.env.GITHUB_APP_ID)
       /\ IsInteger(boot.env.GITHUB_APP_INSTALLATION_ID)
       /\ KeyFile \in {"pem:rsa-2048", "pem:rsa-too-small"}
       /\ appAuth.PrivateKey \in PrivateKeys
  /\ AppAuthFailed =>
       /\ appAuth = NoAppAuth
       /\ \/ ~IsInteger(boot.env.GITHUB_APP_ID)
          \/ ~IsInteger(boot.env.GITHUB_APP_INSTALLATION_ID)
          \/ KeyFile \in {"missing", "staterr", "unreadable", "garbage"}
  /\ (AppAuthReturned \/ AppAuthFailed) =>
       /\ ~IsInteger(boot.env.GITHUB_APP_ID) => AppAuthFailed
       /\ KeyFile = "missing" => AppAuthFailed
       /\ KeyFile = "garbage" => AppAuthFailed

\* NewAppAuth has failed on the key's contents alone: both IDs are numeric and
\* the file is there.
C16_Witness ==
  /\ AppAuthFailed
  /\ appAuth = NoAppAuth
  /\ boot.env.GITHUB_APP_ID = <<49, 50, 51, 52, 53>>
  /\ boot.env.GITHUB_APP_INSTALLATION_ID = <<55, 55, 55>>
  /\ KeyFile = "garbage"

\* HandleWebhook has executed.
Served == \E r \in Requests : handler[r].pc # "idle"

\* C17: the process never serves a webhook unless the startup configuration
\* succeeded: with a required environment variable missing, or NewAppAuth
\* failing, it ends before the listener starts; and whenever HandleWebhook
\* executes, the signing key and the webhook secret were initialized exactly
\* once beforehand.
C17_ServesOnlyAfterStartup ==
  /\ boot.args = "serve"
       /\ \/ MissingEnvVars("serve", boot.env) # {}
          \/ NewAppAuth(boot.env, boot.files).err # ""
     => boot.pc \in {"start", "checked", "exited"} /\ ~Served
  /\ Served =>
       /\ boot.pc = "listening"
       /\ boot.keyInits = 1
       /\ boot.secretInits = 1
       /\ appAuth.PrivateKey \in PrivateKeys
       /\ webhookSecret = boot.env.WEBHOOK_SECRET
       /\ webhookSecret # <<>>

\* A signed pull request delivery has been handled after a complete startup.
C17_Witness ==
  /\ boot.pc = "listening"
  /\ handler[1].pc = "acking"
  /\ handler[1].sigOK

\* C18: in --list-installations mode a valid GITHUB_APP_ID and a valid private
\* key are sufficient: the initialization succeeds and the listing is
\* requested, whether or not GITHUB_APP_INSTALLATION_ID is set.
C18_ListNeedsOnlyAppIdAndKey ==
  /\ boot.args = "list"
  /\ boot.pc # "start"
  /\ IsPositiveInteger(boot.env.GITHUB_APP_ID)
  /\ KeyFile = "pem:rsa-2048"
  => /\ boot.pc = "listing"
     /\ lister.pc = "start"
     /\ appAuth.AppID > 0

(***************************************************************************)
(* Properties of the listing and of the event dispatch.                    *)
(***************************************************************************)
\* C19: GetInstallations enumerates all installations: for any number of
\* installations the remote API holds, the sequence returned contains every
\* one of them, obtained with JWT (Bearer) authentication only and without a
\* token exchange.
C19_ListsEveryInstallation ==
  lister.pc = "listed" =>
    /\ \A k \in 1..Len(lister.held) :
         \E j \in 1..Len(lister.result) : lister.result[j] = lister.held[k]
    /\ lister.bearerSent = lister.jwt
    /\ lister.bearerSent.claims.alg = "RS256"
    /\ lister.exchanges = 0

\* The delivery was correctly signed: the signature check ran and passed.
Signed(h) == h.sigChecked /\ h.sigOK

\* C20: a review workflow is started only for a correctly signed pull_request
\* event whose action is opened or synchronize, and exactly one per such
\* delivery; a signed ping is answered "Pong!"; every other signed event type
\* or pull_request action is acknowledged with 200 and starts no workflow.
C20_WorkflowOnlyForOpenedOrSynchronize ==
  /\ \A r \in Requests :
       LET h == handler[r]
           review == /\ Signed(h)
                     /\ h.event = "pull_request"
                     /\ h.payload \in {P_opened, P_synchronize}
       IN  /\ h.spawn <=> review
           /\ wf[r].pc # "none" <=> review
           /\ h.spawn =>
                <<h.payload, h.header, TRUE>> \in SignatureVerdicts[webhookSecret]
           /\ Signed(h) /\ h.event = "ping" =>
                h.pc = "done" /\ h.status = 200 /\ h.reply = "Pong!"
           /\ Signed(h) /\ h.event \notin {"ping", "pull_request"} =>
                h.pc = "done" /\ h.status = 200 /\ h.reply = ""
           /\ Signed(h) /\ h.event = "pull_request" /\ h.payload = P_closed =>
                h.pc = "done" /\ h.status = 200 /\ h.reply = ""
  /\ Cardinality({r \in Requests : wf[r].pc # "none"})
       = Cardinality({r \in Requests : handler[r].spawn})

\* A signed pull_request delivery with action closed was acknowledged without
\* a workflow, and one with action synchronize started its workflow.
C20_Witness ==
  \E r, q \in Requests :
    /\ Signed(handler[r]) /\ handler[r].event = "pull_request"
    /\ handler[r].payload = P_closed
    /\ handler[r].status = 200 /\ wf[r].pc = "none"
    /\ Signed(handler[q]) /\ handler[q].event = "pull_request"
    /\ handler[q].payload = P_synchronize
    /\ wf[q].pc # "none"

(***************************************************************************)
(* Properties of processPullRequest and of HandleWebhook's answer.         *)
(***************************************************************************)
\* The steps of a review workflow, in the order the claim gives them.
WorkflowOrder == <<"acquire", "diff", "llm", "post">>

\* The step named s has been run by workflow w.
Ran(w, s) == \E k \in 1..Len(w.steps) : w.steps[k] = s

\* C21: within one review workflow the steps run in the fixed order acquire
\* installation client, fetch diff, request LLM review, post review; a step
\* runs only if all previous steps succeeded, so a review is posted at most
\* once per workflow and only with the text the LLM returned for that
\* workflow's diff; the diff fetch and the review post use the same client,
\* obtained by exactly one GetInstallationClient call.
C21_StepsInOrderOnSuccess ==
  \A i \in Requests :
    LET w == wf[i] IN
    /\ Len(w.steps) <= Len(WorkflowOrder)
    /\ w.steps = SubSeq(WorkflowOrder, 1, Len(w.steps))
    /\ Ran(w, "diff") =>
         w.resp = "201" /\ w.client # NoClient /\ w.diffWith = w.client
    /\ Ran(w, "llm") => w.diff = i
    /\ Ran(w, "post") => w.review = i /\ w.postWith = w.diffWith
    /\ w.pc = "failed" =>
         w.steps = SubSeq(WorkflowOrder, 1,
                          CASE w.failedAt \in {"jwt", "exchange"} -> 1
                            [] w.failedAt = "diff" -> 2
                            [] w.failedAt = "llm"  -> 3
                            [] w.failedAt = "post" -> 4)
    /\ w.posted # 0 => Ran(w, "post") /\ w.posted = w.review /\ w.posted = i
    /\ ~Ran(w, "diff") => w.diffWith = NoClient /\ w.diff = 0
    /\ ~Ran(w, "llm") => w.review = 0
    /\ ~Ran(w, "post") => w.postWith = NoClient /\ w.posted = 0
    /\ Ran(w, "acquire") => w.jwtMints = 1 /\ w.exchanges <= 1

\* One workflow stopped at the LLM review without posting; another ran all
\* four steps and posted the review of its own diff.
C21_Witness ==
  \E i, j \in Requests :
    /\ wf[i].pc = "failed" /\ wf[i].failedAt = "llm"
    /\ wf[i].steps = <<"acquire", "diff", "llm">>
    /\ wf[j].pc = "posted" /\ wf[j].steps = WorkflowOrder
    /\ wf[j].posted = j

\* The HTTP outcome the claim gives for what the handler met.
ExpectedStatus(h) ==
  IF ~h.bodyOK THEN 500
  ELSE IF ~h.sigOK THEN 401
  ELSE IF /\ h.event = "pull_request"
          /\ h.payload \notin {P_opened, P_synchronize, P_closed} THEN 400
  ELSE 200

\* C22: every HandleWebhook invocation terminates having produced exactly one
\* HTTP outcome from 500 (body-read failure), 401 (invalid signature), 200 and
\* 400 (unparsable pull_request payload), without waiting for any review
\* workflow; no path writes two status codes or returns without a response.
C22_OneOutcomePerInvocation ==
  /\ [](\A r \in LiveRequests :
          LET h == handler[r] IN
          /\ h.writes <= 1
          /\ h.pc = "idle" => h.writes = 0
          /\ h.pc = "acking" => h.writes = 0 /\ ENABLED Ack(r)
          /\ h.pc = "done" =>
               /\ h.writes = 1
               /\ h.status \in {500, 401, 200, 400}
               /\ h.status = ExpectedStatus(h))
  /\ \A r \in LiveRequests :
       (handler[r].pc # "idle") ~> (handler[r].pc = "done")

\* Handled deliveries were answered 401 and 400, and one was answered 200
\* while its review workflow had yet to run a step.
C22_Witness ==
  /\ \E r \in LiveRequests : handler[r].pc = "done" /\ handler[r].status = 200
                         /\ wf[r].pc = "start"
  /\ \E r \in LiveRequests : handler[r].pc = "done" /\ handler[r].status \in {400, 401}

=============================================================================
